---- MODULE Spec2Model ----
(***************************************************************************)
(* Model of ip_address_utils.py (address/CIDR/range algebra and the        *)
(* consolidation sweep) and of the record loop of inetnum_file_parser.py.  *)
(*                                                                         *)
(* Representation.                                                         *)
(*  - A Python int that may exceed 2^31 is a pair <<hi, lo>> standing for   *)
(*    hi * 2^16 + lo with 0 <= lo < 2^16 (always normalised), so that all   *)
(*    32-bit addresses, and the out-of-range values malformed input        *)
(*    produces, are exact.                                                 *)
(*  - A decimal numeral is the sequence of its digits (<<1,9,2>> is "192", *)
(*    <<>> is the empty string).  An address string is the sequence of its *)
(*    "."-separated numerals; a CIDR string is the sequence of its         *)
(*    "/"-separated fields: the address field, then mask fields, each a    *)
(*    record [neg, digits] (an optional "-" and a numeral).                *)
(*  - A call that may raise returns [ok |-> TRUE, val |-> v] or            *)
(*    [ok |-> FALSE, err |-> <exception name>].                            *)
(***************************************************************************)
EXTENDS Integers, Sequences, FiniteSets, TLC

VARIABLES call, arg, ret, returned,
          batch_size, columns_downselect, lines, records, record,
          column_name, num_records, saved, pc

libvars == <<call, arg, ret, returned>>
parvars == <<batch_size, columns_downselect, lines, records, record,
            column_name, num_records, saved, pc>>
vars == <<call, arg, ret, returned, batch_size, columns_downselect, lines,
          records, record, column_name, num_records, saved, pc>>

(***************************************************************************)
(* Python values                                                           *)
(***************************************************************************)
Ok(v) == [ok |-> TRUE, val |-> v]
Raise(e) == [ok |-> FALSE, err |-> e]

Base == 2^16

\* hi * 2^16 + lo, normalised
IntNorm(hi, lo) == <<hi + (lo \div Base), lo % Base>>

\* a + b
IntAdd(a, b) == IntNorm(a[1] + b[1], a[2] + b[2])

\* n * a for a small natural n
IntMulNat(n, a) == IntNorm(n * a[1], n * a[2])

\* 1 << i, for i >= 0
IntShl1(i) == IF i < 16 THEN <<0, 2^i>> ELSE <<2^(i - 16), 0>>

\* a < b and a <= b
IntLess(a, b) == a[1] < b[1] \/ (a[1] = b[1] /\ a[2] < b[2])
IntLeq(a, b) == a = b \/ IntLess(a, b)

\* x & y on naturals below 16, bit by bit
NibbleAnd(x, y) ==
      (x % 2) * (y % 2)
    + 2 * (((x \div 2) % 2) * ((y \div 2) % 2))
    + 4 * (((x \div 4) % 2) * ((y \div 4) % 2))
    + 8 * (((x \div 8) % 2) * ((y \div 8) % 2))

RECURSIVE NatAnd(_, _)
\* x & y on naturals, four bits a step
NatAnd(x, y) ==
    IF x = 0 \/ y = 0 THEN 0
    ELSE NibbleAnd(x % 16, y % 16) + 16 * NatAnd(x \div 16, y \div 16)

\* a & b
IntAnd(a, b) == <<NatAnd(a[1], b[1]), NatAnd(a[2], b[2])>>

\* a // (1 << i), for i >= 0
IntFloorDivShl1(a, i) ==
    IF i < 16
    THEN IntNorm(a[1] \div 2^i, (a[1] % 2^i) * 2^(16 - i) + (a[2] \div 2^i))
    ELSE IntNorm(0, a[1] \div 2^(i - 16))

RECURSIVE PyInt(_)
\* int(s) of a non-empty unsigned numeral (the callers raise ValueError on "")
PyInt(s) == IF Len(s) = 0 THEN 0
            ELSE 10 * PyInt(SubSeq(s, 1, Len(s) - 1)) + s[Len(s)]

RECURSIVE PyStr(_)
\* str(n) of a natural: no leading zeros, "0" for zero
PyStr(n) == IF n < 10 THEN <<n>> ELSE Append(PyStr(n \div 10), n % 10)

\* int(s) of a signed numeral [neg, digits]
PyIntSigned(s) == IF s.neg THEN 0 - PyInt(s.digits) ELSE PyInt(s.digits)

(***************************************************************************)
(* get_value, value_to_ip                                                  *)
(***************************************************************************)
RECURSIVE get_value_loop(_, _, _)
\* the loop of get_value: ip_octets is the reversed split, acc is ip_num_value
get_value_loop(ip_octets, exponent, acc) ==
    IF exponent = 4 THEN Ok(acc)
    ELSE IF exponent + 1 > Len(ip_octets) THEN Raise("IndexError")
    ELSE IF Len(ip_octets[exponent + 1]) = 0 THEN Raise("ValueError")
    ELSE get_value_loop(ip_octets, exponent + 1,
             IntAdd(acc, IntMulNat(PyInt(ip_octets[exponent + 1]),
                                   IntShl1(exponent * 8))))

Reversed(s) == [k \in 1..Len(s) |-> s[Len(s) + 1 - k]]

get_value(ip_addr) == get_value_loop(Reversed(ip_addr), 0, <<0, 0>>)

RECURSIVE value_to_ip_loop(_, _, _)
\* the loop of value_to_ip over i = 0, 8, 16, 24; octets in append order
value_to_ip_loop(value, i, octets) ==
    IF i >= 32 THEN octets
    ELSE LET v1 == 255   \* sum([(1 << i) for i in range(8)])
             v2 == IntMulNat(v1, IntShl1(i))
             octet == IntFloorDivShl1(IntAnd(value, v2), i)
         IN value_to_ip_loop(value, i + 8, Append(octets, PyStr(octet[2])))

\* faulty variant: the octets joined in the order they were appended
value_to_ip_unreversed(value) == value_to_ip_loop(value, 0, <<>>)

value_to_ip(value) == Reversed(value_to_ip_loop(value, 0, <<>>))

(***************************************************************************)
(* CIDR -> range                                                           *)
(***************************************************************************)
\* sum([(1 << i) for i in range(from, to)]), for from >= 0: the bits
\* from..to-1 set, that is 2^to - 2^from, split at bit 16 into <<hi, lo>>
SumShl1(from, to) ==
    IF from >= to THEN <<0, 0>>
    ELSE LET loTo == IF to < 16 THEN to ELSE 16
             hiFrom == IF from > 16 THEN from ELSE 16
         IN << IF hiFrom < to THEN 2^(to - 16) - 2^(hiFrom - 16) ELSE 0,
               IF from < loTo THEN 2^loTo - 2^from ELSE 0 >>

get_min_value(prefix, mask) ==
    LET ip_num_value == get_value(prefix)
    IN IF ~ip_num_value.ok THEN ip_num_value
       ELSE IF 32 - mask < 0 THEN Raise("ValueError")   \* 1 << i with i < 0
       ELSE Ok(IntAnd(ip_num_value.val, SumShl1(32 - mask, 32)))

get_max_value(min_value, mask) == IntAdd(min_value, SumShl1(0, 32 - mask))

ip_cidr_to_ip_value_range(ip_cidr) ==
    IF Len(ip_cidr) # 2 THEN Raise("ValueError")        \* prefix, mask = split
    ELSE LET prefix == ip_cidr[1]
             mask == ip_cidr[2]
         IN IF Len(mask.digits) = 0 THEN Raise("ValueError")   \* int(mask)
            ELSE LET min_value == get_min_value(prefix, PyIntSigned(mask))
                 IN IF ~min_value.ok THEN min_value
                    ELSE Ok(<<min_value.val,
                              get_max_value(min_value.val, PyIntSigned(mask))>>)

ip_cidr_to_ip_range(ip_cidr) ==
    LET r == ip_cidr_to_ip_value_range(ip_cidr)
    IN IF ~r.ok THEN r
       ELSE Ok(<<value_to_ip(r.val[1]), value_to_ip(r.val[2])>>)

is_ip_in_cidr(ip_addr, ip_cidr) ==
    LET value_range == ip_cidr_to_ip_value_range(ip_cidr)
        ip_addr_value == get_value(ip_addr)
    IN IF ~value_range.ok THEN value_range
       ELSE IF ~ip_addr_value.ok THEN ip_addr_value
       ELSE Ok(IntLeq(value_range.val[1], ip_addr_value.val)
               /\ IntLeq(ip_addr_value.val, value_range.val[2]))

(***************************************************************************)
(* get_ip_cidr_from_ips                                                    *)
(***************************************************************************)
RECURSIVE get_values(_, _)
\* [get_value(ip_addr) for ip_addr in ip_addrs], from index k on
get_values(ip_addrs, k) ==
    IF k > Len(ip_addrs) THEN Ok(<<>>)
    ELSE LET v == get_value(ip_addrs[k])
             rest == get_values(ip_addrs, k + 1)
         IN IF ~v.ok THEN v
            ELSE IF ~rest.ok THEN rest
            ELSE Ok(<<v.val>> \o rest.val)

\* a CIDR string "<address>/<n>"
CidrStr(addr, n) == <<addr, [neg |-> FALSE, digits |-> PyStr(n)]>>

\* any(... for (value_1, value_2) in product(values, values)) at bit i
BitDiffers(values, i) ==
    \E x \in 1..Len(values), y \in 1..Len(values) :
        IntAnd(values[x], IntShl1(i)) # IntAnd(values[y], IntShl1(i))

\* faulty variant: the scan stops at the lowest differing bit instead of the highest
cidr_scan_lowest(values) ==
    LET differing == {b \in 0..31 : BitDiffers(values, b)}
    IN IF differing = {} THEN <<0, SumShl1(0, 32)>>
       ELSE LET i == CHOOSE b \in differing : \A c \in differing : b <= c
            IN <<i, SumShl1(i + 1, 32)>>

\* the while loop of get_ip_cidr_from_ips, as <<i, mask>> at its exit: i
\* counts down from 31 and the loop breaks at the first (highest) bit where
\* two values differ, mask then holding the bits above i; with no such bit
\* it runs out at i = 0 with mask holding bits 0..31
cidr_scan(values) ==
    LET differing == {b \in 0..31 : BitDiffers(values, b)}
    IN IF differing = {} THEN <<0, SumShl1(0, 32)>>
       ELSE LET i == CHOOSE b \in differing : \A c \in differing : c <= b
            IN <<i, SumShl1(i + 1, 32)>>

\* faulty variant: the mask length is 32 - i instead of 32 - (i + 1)
get_ip_cidr_from_ips_off_by_one(ip_addrs) ==
    LET values == get_values(ip_addrs, 1)
    IN IF ~values.ok THEN values
       ELSE IF \A x \in 1..Len(values.val), y \in 1..Len(values.val) :
                   values.val[x] = values.val[y]
       THEN IF Len(ip_addrs) = 0 THEN Raise("IndexError")   \* ip_addrs[0]
            ELSE Ok(CidrStr(ip_addrs[1], 32))
       ELSE LET e == cidr_scan(values.val)
                prefix == IntAnd(e[2], values.val[1])
            IN Ok(CidrStr(value_to_ip(prefix), 32 - e[1]))

\* faulty variant: an empty collection yields 0.0.0.0/0 instead of raising
get_ip_cidr_from_ips_empty_default(ip_addrs) ==
    LET values == get_values(ip_addrs, 1)
    IN IF ~values.ok THEN values
       ELSE IF \A x \in 1..Len(values.val), y \in 1..Len(values.val) :
                   values.val[x] = values.val[y]
       THEN IF Len(ip_addrs) = 0 THEN Ok(CidrStr(value_to_ip(<<0, 0>>), 0))
            ELSE Ok(CidrStr(ip_addrs[1], 32))
       ELSE LET e == cidr_scan(values.val)
                prefix == IntAnd(e[2], values.val[1])
            IN Ok(CidrStr(value_to_ip(prefix), 32 - (e[1] + 1)))

get_ip_cidr_from_ips(ip_addrs) ==
    LET values == get_values(ip_addrs, 1)
    IN IF ~values.ok THEN values
       ELSE IF \A x \in 1..Len(values.val), y \in 1..Len(values.val) :
                   values.val[x] = values.val[y]
       THEN IF Len(ip_addrs) = 0 THEN Raise("IndexError")   \* ip_addrs[0]
            ELSE Ok(CidrStr(ip_addrs[1], 32))
       ELSE LET e == cidr_scan(values.val)
                prefix == IntAnd(e[2], values.val[1])
            IN Ok(CidrStr(value_to_ip(prefix), 32 - (e[1] + 1)))

(***************************************************************************)
(* Ranges: pairs <<low address, high address>> of well-formed address      *)
(* strings (value_to_ip yields only such, and direct calls draw only such) *)
(***************************************************************************)
Val(ip_addr) == get_value(ip_addr).val

\* compare_ip_address_ranges(r1, r2) <= 0
compare_ip_address_ranges_leq(ip_range_1, ip_range_2) ==
    IntLeq(Val(ip_range_1[1]), Val(ip_range_2[1]))

\* faulty variant: ranges that merely touch (high + 1 = low) count as overlapping
ip_ranges_overlap_touching(ip_range_1, ip_range_2) ==
    /\ IntLeq(Val(ip_range_2[1]), IntAdd(Val(ip_range_1[2]), <<0, 1>>))
    /\ IntLeq(Val(ip_range_1[1]), IntAdd(Val(ip_range_2[2]), <<0, 1>>))

\* faulty variant: strict comparisons, so ranges sharing one end address do not overlap
ip_ranges_overlap_strict(ip_range_1, ip_range_2) ==
    /\ IntLess(Val(ip_range_2[1]), Val(ip_range_1[2]))
    /\ IntLess(Val(ip_range_1[1]), Val(ip_range_2[2]))

ip_ranges_overlap(ip_range_1, ip_range_2) ==
    /\ IntLeq(Val(ip_range_2[1]), Val(ip_range_1[2]))
    /\ IntLeq(Val(ip_range_1[1]), Val(ip_range_2[2]))

RECURSIVE sort_insert(_, _)
\* place r behind every element that does not compare greater (stable)
sort_insert(sorted, r) ==
    IF Len(sorted) = 0 THEN <<r>>
    ELSE IF compare_ip_address_ranges_leq(sorted[Len(sorted)], r)
         THEN Append(sorted, r)
         ELSE Append(sort_insert(SubSeq(sorted, 1, Len(sorted) - 1), r),
                     sorted[Len(sorted)])

RECURSIVE sort_ip_address_ranges(_)
\* sorted(ip_ranges, key=cmp_to_key(compare_ip_address_ranges)): stable
sort_ip_address_ranges(ip_ranges) ==
    IF Len(ip_ranges) = 0 THEN <<>>
    ELSE sort_insert(
             sort_ip_address_ranges(SubSeq(ip_ranges, 1, Len(ip_ranges) - 1)),
             ip_ranges[Len(ip_ranges)])

\* faulty variant: the upper bound is always taken from the first range
combine_ip_ranges_first_max(ip_range_1, ip_range_2) ==
    LET min_ip_range == IF IntLess(Val(ip_range_1[1]), Val(ip_range_2[1]))
                        THEN ip_range_1[1] ELSE ip_range_2[1]
    IN <<min_ip_range, ip_range_1[2]>>

combine_ip_ranges(ip_range_1, ip_range_2) ==
    LET min_ip_range == IF IntLess(Val(ip_range_1[1]), Val(ip_range_2[1]))
                        THEN ip_range_1[1] ELSE ip_range_2[1]
        max_ip_range == IF IntLess(Val(ip_range_2[2]), Val(ip_range_1[2]))
                        THEN ip_range_1[2] ELSE ip_range_2[2]
    IN <<min_ip_range, max_ip_range>>

RECURSIVE consolidate_loop(_, _, _)
\* the for loop of consolidate_ip_ranges over the sorted ranges, from index k
consolidate_loop(sorted, k, consolidated_ranges) ==
    IF k > Len(sorted) THEN consolidated_ranges
    ELSE LET ip_range == sorted[k]
             n == Len(consolidated_ranges)
         IN IF n > 0 /\ ip_ranges_overlap(ip_range, consolidated_ranges[n])
            THEN consolidate_loop(sorted, k + 1,
                     Append(SubSeq(consolidated_ranges, 1, n - 1),
                            combine_ip_ranges(ip_range, consolidated_ranges[n])))
            ELSE consolidate_loop(sorted, k + 1,
                                  Append(consolidated_ranges, ip_range))

consolidate_ip_ranges(ip_ranges) ==
    consolidate_loop(sort_ip_address_ranges(ip_ranges), 1, <<>>)

RECURSIVE cidrs_to_ranges(_, _)
\* [ip_cidr_to_ip_range(ip_cidr) for ip_cidr in ip_cidrs], from index k on:
\* the first malformed element raises
cidrs_to_ranges(ip_cidrs, k) ==
    IF k > Len(ip_cidrs) THEN Ok(<<>>)
    ELSE LET r == ip_cidr_to_ip_range(ip_cidrs[k])
             rest == cidrs_to_ranges(ip_cidrs, k + 1)
         IN IF ~r.ok THEN r
            ELSE IF ~rest.ok THEN rest
            ELSE Ok(<<r.val>> \o rest.val)

consolidate_ip_cidrs(ip_cidrs) ==
    LET ip_ranges == cidrs_to_ranges(ip_cidrs, 1)
    IN IF ~ip_ranges.ok THEN ip_ranges
       ELSE LET consolidated_ranges == consolidate_ip_ranges(ip_ranges.val)
            IN Ok([k \in 1..Len(consolidated_ranges) |->
                      get_ip_cidr_from_ips(consolidated_ranges[k]).val])

(***************************************************************************)
(* Inputs                                                                  *)
(***************************************************************************)
DEFAULT_BATCH_SIZE == 500000

MaxAddrs == 3
MaxRanges == 3
MaxCidrs == 3

\* all sequences over S of length 0..n
SeqsUpTo(S, n) == UNION {[1..k -> S] : k \in 0..n}

Addr(a, b, c, d) == <<PyStr(a), PyStr(b), PyStr(c), PyStr(d)>>
Mask(n) == [neg |-> FALSE, digits |-> PyStr(n)]
Cidr(a, b, c, d, n) == <<Addr(a, b, c, d), Mask(n)>>

WellAddrs ==
    { Addr(0, 0, 0, 0), Addr(0, 0, 0, 1), Addr(1, 2, 3, 4), Addr(1, 2, 3, 5),
      Addr(10, 0, 0, 5), Addr(127, 255, 255, 255), Addr(128, 0, 0, 0),
      Addr(192, 168, 43, 0), Addr(192, 168, 44, 0), Addr(192, 168, 45, 0),
      Addr(210, 105, 41, 0), Addr(224, 255, 255, 255),
      Addr(254, 0, 0, 0), Addr(255, 255, 255, 255) }

\* three octets, five octets, an octet above 255 (low and high position),
\* an empty octet, the empty string
BadAddrs ==
    { <<PyStr(1), PyStr(2), PyStr(3)>>,
      <<PyStr(9), PyStr(1), PyStr(2), PyStr(3), PyStr(4)>>,
      Addr(1, 2, 3, 256), Addr(256, 0, 0, 0),
      <<PyStr(1), <<>>, PyStr(3), PyStr(4)>>,
      << <<>> >> }

\* Python ints 0 .. 2^32 - 1, as <<hi, lo>>
ValuePool ==
    { <<h, l>> : h \in {0, 1, 255, 256, 32767, 32768, 49320, 65535},
                 l \in {0, 1, 255, 256, 11008, 32768, 65535} }

CoverAddrs ==
    { Addr(0, 0, 0, 0), Addr(1, 2, 3, 4), Addr(1, 2, 3, 5),
      Addr(192, 168, 43, 0), Addr(192, 168, 44, 0), Addr(192, 168, 45, 0),
      Addr(224, 255, 255, 255), Addr(255, 255, 255, 255) }

WellCidrs ==
    { Cidr(0, 0, 0, 0, 0), Cidr(10, 0, 0, 0, 8), Cidr(10, 0, 0, 5, 32),
      Cidr(192, 168, 0, 0, 24), Cidr(192, 168, 1, 0, 24),
      Cidr(192, 168, 2, 0, 24), Cidr(192, 168, 1, 77, 25),
      Cidr(192, 168, 0, 0, 23), Cidr(210, 105, 44, 170, 21),
      Cidr(255, 255, 255, 255, 32), Cidr(0, 0, 0, 0, 32) }

\* no "/", two "/", mask 33, mask -1, empty mask, octet 256, five octets,
\* three octets
BadCidrs ==
    { <<Addr(1, 2, 3, 4)>>,
      <<Addr(1, 2, 3, 4), Mask(8), Mask(8)>>,
      Cidr(1, 2, 3, 4, 33),
      <<Addr(1, 2, 3, 4), [neg |-> TRUE, digits |-> PyStr(1)]>>,
      <<Addr(1, 2, 3, 4), [neg |-> FALSE, digits |-> <<>>]>>,
      Cidr(1, 2, 3, 256, 24),
      <<<<PyStr(9), PyStr(1), PyStr(2), PyStr(3), PyStr(4)>>, Mask(8)>>,
      <<<<PyStr(1), PyStr(2), PyStr(3)>>, Mask(8)>> }

\* nested, duplicate, adjacent and disjoint blocks, an unnormalised prefix,
\* /0 and /32, and two malformed strings (no "/", octet 256)
ConsolidateCidrs ==
    { Cidr(0, 0, 0, 0, 0), Cidr(10, 0, 0, 0, 8), Cidr(192, 168, 0, 0, 24),
      Cidr(192, 168, 1, 0, 24), Cidr(192, 168, 2, 0, 24),
      Cidr(192, 168, 1, 77, 25), Cidr(192, 168, 0, 0, 23),
      Cidr(255, 255, 255, 255, 32),
      <<Addr(1, 2, 3, 4)>>, Cidr(1, 2, 3, 256, 24) }

\* four consecutive addresses, 65534 .. 65537 as values
RangeAddrs ==
    { Addr(0, 0, 255, 254), Addr(0, 0, 255, 255), Addr(0, 1, 0, 0),
      Addr(0, 1, 0, 1) }

\* address ranges low <= high
RangePool ==
    { r \in RangeAddrs \X RangeAddrs : IntLeq(Val(r[1]), Val(r[2])) }

(***************************************************************************)
(* The library as a state machine.  The library keeps no state between     *)
(* calls (its global cache is never read or written), so a behaviour is    *)
(* one call: the initial state holds the function called and its argument, *)
(* and the step runs the function and stores what it returned or raised.   *)
(***************************************************************************)
NoDownselect == [given |-> FALSE, cols |-> {}]

\* the parser is not running
ParserIdle ==
    /\ batch_size = DEFAULT_BATCH_SIZE /\ columns_downselect = NoDownselect
    /\ lines = <<>> /\ records = <<>> /\ record = <<>>
    /\ column_name = "None" /\ num_records = 0 /\ saved = <<>> /\ pc = "idle"

Init ==
    /\ ret = <<>> /\ returned = FALSE /\ ParserIdle
    /\ \/ call = "get_value" /\ arg \in WellAddrs \cup BadAddrs
       \/ call = "value_to_ip" /\ arg \in ValuePool
       \/ call = "ip_cidr_to_ip_value_range" /\ arg \in WellCidrs \cup BadCidrs
       \/ call = "get_ip_cidr_from_ips" /\ arg \in SeqsUpTo(CoverAddrs, MaxAddrs)
       \/ call = "consolidate_ip_ranges" /\ arg \in SeqsUpTo(RangePool, MaxRanges)
       \/ call = "consolidate_ip_cidrs"
          /\ arg \in SeqsUpTo(ConsolidateCidrs, MaxCidrs)

Call_get_value ==
    /\ call = "get_value" /\ ~returned
    /\ ret' = get_value(arg) /\ returned' = TRUE
    /\ UNCHANGED <<call, arg>> /\ UNCHANGED parvars

Call_value_to_ip ==
    /\ call = "value_to_ip" /\ ~returned
    /\ ret' = Ok(value_to_ip(arg)) /\ returned' = TRUE
    /\ UNCHANGED <<call, arg>> /\ UNCHANGED parvars

Call_ip_cidr_to_ip_value_range ==
    /\ call = "ip_cidr_to_ip_value_range" /\ ~returned
    /\ ret' = ip_cidr_to_ip_value_range(arg) /\ returned' = TRUE
    /\ UNCHANGED <<call, arg>> /\ UNCHANGED parvars

Call_get_ip_cidr_from_ips ==
    /\ call = "get_ip_cidr_from_ips" /\ ~returned
    /\ ret' = get_ip_cidr_from_ips(arg) /\ returned' = TRUE
    /\ UNCHANGED <<call, arg>> /\ UNCHANGED parvars

Call_consolidate_ip_ranges ==
    /\ call = "consolidate_ip_ranges" /\ ~returned
    /\ ret' = Ok(consolidate_ip_ranges(arg)) /\ returned' = TRUE
    /\ UNCHANGED <<call, arg>> /\ UNCHANGED parvars

Call_consolidate_ip_cidrs ==
    /\ call = "consolidate_ip_cidrs" /\ ~returned
    /\ ret' = consolidate_ip_cidrs(arg) /\ returned' = TRUE
    /\ UNCHANGED <<call, arg>> /\ UNCHANGED parvars

Next ==
    \/ Call_get_value
    \/ Call_value_to_ip
    \/ Call_ip_cidr_to_ip_value_range
    \/ Call_get_ip_cidr_from_ips
    \/ Call_consolidate_ip_ranges
    \/ Call_consolidate_ip_cidrs

Spec == Init /\ [][Next]_vars

(***************************************************************************)
(* inetnum_file_parser.py: the record loop of main.                        *)
(*                                                                         *)
(* A line of the file is [kind, name, addrs]: a comment, a blank line, a   *)
(* field line "name:value" or any other (continuation) line; addrs is the  *)
(* value of an inetnum field split at " - ".  Line texts are told apart by *)
(* their line number: a column's value is the sequence of its "\n"-joined  *)
(* pieces, each [line |-> number of the line it came from].  A record is a *)
(* function from column names to values, <<>> being the empty dict.        *)
(* lines holds the lines read so far; saved holds the batches handed to    *)
(* save_records, in order.                                                 *)
(***************************************************************************)
MaxLines == 4
MaxBatch == 2

InetnumValues ==
    { <<Addr(1, 2, 3, 4), Addr(1, 2, 3, 5)>>,
      <<<<PyStr(1), PyStr(2), PyStr(3)>>, Addr(1, 2, 3, 5)>> }

FieldLines ==
    {[kind |-> "field", name |-> "inetnum", addrs |-> v] : v \in InetnumValues}
        \cup {[kind |-> "field", name |-> "netname", addrs |-> <<>>]}

Downselects ==
    { NoDownselect,
      [given |-> TRUE, cols |-> {"netname"}],
      [given |-> TRUE, cols |-> {"inetnum"}] }

Retained(name) == ~columns_downselect.given \/ name \in columns_downselect.cols

DictSet(d, k, v) == [x \in DOMAIN d \cup {k} |-> IF x = k THEN v ELSE d[x]]

InitParser ==
    /\ call = "none" /\ arg = <<>> /\ ret = <<>> /\ returned = TRUE
    /\ batch_size \in 1..MaxBatch
    /\ columns_downselect \in Downselects
    /\ lines = <<>> /\ records = <<>> /\ record = <<>>
    /\ column_name = "None" /\ num_records = 0 /\ saved = <<>> /\ pc = "loop"

\* for line in inet_file: there is another line
Reading == pc = "loop" /\ Len(lines) < MaxLines

\* a line starting with "#" or "%"
ReadComment ==
    /\ Reading
    /\ lines' = Append(lines, [kind |-> "comment", name |-> "", addrs |-> <<>>])
    /\ UNCHANGED <<batch_size, columns_downselect, records, record,
                   column_name, num_records, saved, pc>>
    /\ UNCHANGED libvars

\* a line with line.strip() == ""
ReadBlank ==
    /\ Reading
    /\ lines' = Append(lines, [kind |-> "blank", name |-> "", addrs |-> <<>>])
    /\ LET appended == IF DOMAIN record # {} THEN Append(records, record)
                       ELSE records
       IN /\ record' = <<>>
          /\ IF Len(appended) = batch_size
             THEN /\ saved' = Append(saved, appended)
                  /\ num_records' = num_records + batch_size
                  /\ records' = <<>>
             ELSE /\ records' = appended
                  /\ UNCHANGED <<saved, num_records>>
    /\ UNCHANGED <<batch_size, columns_downselect, column_name, pc>>
    /\ UNCHANGED libvars

\* a line matching ^([a-zA-Z0-9\-]+)\:(.*)
ReadField ==
    /\ Reading
    /\ \E line \in FieldLines :
        LET piece == [line |-> Len(lines) + 1]
            stored == IF line.name \in DOMAIN record
                      THEN DictSet(record, line.name,
                                   Append(record[line.name], piece))
                      ELSE DictSet(record, line.name, <<piece>>)
            ip_cidr == get_ip_cidr_from_ips(line.addrs)
        IN /\ lines' = Append(lines, line)
           /\ column_name' = line.name
           /\ IF ~Retained(line.name)
              THEN UNCHANGED <<record, pc>>
              ELSE IF line.name = "inetnum"
                      /\ (~columns_downselect.given
                          \/ "ip_cidr" \in columns_downselect.cols)
              THEN IF ip_cidr.ok
                   THEN /\ record' = DictSet(stored, "ip_cidr", ip_cidr.val)
                        /\ UNCHANGED pc
                   ELSE /\ record' = stored
                        /\ pc' = "raised"
              ELSE /\ record' = stored
                   /\ UNCHANGED pc
    /\ UNCHANGED <<batch_size, columns_downselect, records, num_records, saved>>
    /\ UNCHANGED libvars

\* any other line: appended to the value of the column named last
ReadContinuation ==
    /\ Reading
    /\ lines' = Append(lines, [kind |-> "cont", name |-> "", addrs |-> <<>>])
    /\ IF ~columns_downselect.given \/ column_name \in columns_downselect.cols
       THEN IF column_name \in DOMAIN record
            THEN /\ record' = DictSet(record, column_name,
                                  Append(record[column_name],
                                         [line |-> Len(lines) + 1]))
                 /\ UNCHANGED pc
            ELSE /\ pc' = "raised"       \* KeyError
                 /\ UNCHANGED record
       ELSE UNCHANGED <<record, pc>>
    /\ UNCHANGED <<batch_size, columns_downselect, records, column_name,
                   num_records, saved>>
    /\ UNCHANGED libvars

\* the file is exhausted: the statements behind the loop
EndOfFile ==
    /\ pc = "loop"
    /\ pc' = "done"
    /\ IF Len(records) > 0
       THEN /\ saved' = Append(saved, records)
            /\ num_records' = num_records + Len(records)
       ELSE UNCHANGED <<saved, num_records>>
    /\ UNCHANGED <<batch_size, columns_downselect, lines, records, record,
                   column_name>>
    /\ UNCHANGED libvars

NextParser ==
    \/ ReadComment
    \/ ReadBlank
    \/ ReadField
    \/ ReadContinuation
    \/ EndOfFile

SpecParser == InitParser /\ [][NextParser]_vars

(***************************************************************************)
(* Properties of the parser                                                *)
(***************************************************************************)
RetainedField(k) == lines[k].kind = "field" /\ Retained(lines[k].name)

\* line k opens a record: a retained field with no retained field between
\* it and the blank line (or start of file) before it
OpensRecord(k) ==
    /\ RetainedField(k)
    /\ \A j \in 1..(k - 1) :
           RetainedField(j) => \E b \in (j + 1)..(k - 1) : lines[b].kind = "blank"

RECURSIVE Ascending(_)
\* the elements of a set of numbers, in ascending order
Ascending(S) ==
    IF S = {} THEN <<>>
    ELSE LET m == CHOOSE x \in S : \A y \in S : y <= x
         IN Append(Ascending(S \ {m}), m)

\* the records of the file, each named by the line that opens it
ExpectedRecords == Ascending({k \in 1..Len(lines) : OpensRecord(k)})

RECURSIVE Flatten(_)
Flatten(batches) ==
    IF Len(batches) = 0 THEN <<>>
    ELSE Flatten(SubSeq(batches, 1, Len(batches) - 1)) \o batches[Len(batches)]

\* the line a saved record was opened by: the least line among its pieces
OpenedBy(rec) ==
    LET ls == {rec[c][1].line : c \in DOMAIN rec \ {"ip_cidr"}}
    IN CHOOSE x \in ls : \A y \in ls : x <= y

\* C10: when the loop has ended, every record with a retained field has been
\* passed to save_records exactly once, in input order, in batches of at most
\* batch_size records, and num_records is the number of such records.
C10_AllRecordsSaved ==
    pc = "done"
    => LET flat == Flatten(saved)
       IN /\ [k \in 1..Len(flat) |-> OpenedBy(flat[k])] = ExpectedRecords
          /\ \A b \in 1..Len(saved) :
                 Len(saved[b]) >= 1 /\ Len(saved[b]) <= batch_size
          /\ num_records = Len(ExpectedRecords)


(***************************************************************************)
(* Reference semantics used to state the properties: the numeric meaning   *)
(* of addresses and blocks, computed without the operators modelled above. *)
(***************************************************************************)
\* a.b.c.d as a 32-bit value
RefValue(addr) ==
    << PyInt(addr[1]) * 256 + PyInt(addr[2]),
       PyInt(addr[3]) * 256 + PyInt(addr[4]) >>

\* the canonical dotted quad of a 32-bit value
RefAddr(v) == Addr(v[1] \div 256, v[1] % 256, v[2] \div 256, v[2] % 256)

WellFormedAddr(addr) ==
    /\ Len(addr) = 4
    /\ \A k \in 1..4 : Len(addr[k]) > 0 /\ PyInt(addr[k]) <= 255

WellFormedCidr(c) ==
    /\ Len(c) = 2
    /\ WellFormedAddr(c[1])
    /\ ~c[2].neg /\ Len(c[2].digits) > 0 /\ PyInt(c[2].digits) <= 32

MaskOf(c) == PyInt(c[2].digits)

\* v with its low k bits cleared, for v < 2^32 and 0 <= k <= 32
ClearLow(v, k) ==
    IF k >= 16 THEN <<(v[1] \div 2^(k - 16)) * 2^(k - 16), 0>>
    ELSE <<v[1], (v[2] \div 2^k) * 2^k>>

\* v with its low k bits set
SetLow(v, k) ==
    IF k >= 16 THEN <<(v[1] \div 2^(k - 16)) * 2^(k - 16) + (2^(k - 16) - 1),
                      Base - 1>>
    ELSE <<v[1], (v[2] \div 2^k) * 2^k + (2^k - 1)>>

\* first and last address of a well-formed block
RefLow(c) == ClearLow(RefValue(c[1]), 32 - MaskOf(c))
RefHigh(c) == SetLow(RefValue(c[1]), 32 - MaskOf(c))

\* v + 1 and v - 1
IntSucc(v) == IntNorm(v[1], v[2] + 1)
IntPred(v) == IF v[2] = 0 THEN <<v[1] - 1, Base - 1>> ELSE <<v[1], v[2] - 1>>

\* sequences of intervals <<low, high>> of values
CidrIntervals(cs) == [k \in 1..Len(cs) |-> <<RefLow(cs[k]), RefHigh(cs[k])>>]
RangeIntervals(rs) ==
    [k \in 1..Len(rs) |-> <<RefValue(rs[k][1]), RefValue(rs[k][2])>>]

Within(x, iv) == IntLeq(iv[1], x) /\ IntLeq(x, iv[2])
Covered(x, I) == \E k \in 1..Len(I) : Within(x, I[k])
Intersect(iv, jv) == IntLeq(jv[1], iv[2]) /\ IntLeq(iv[1], jv[2])
Contains(iv, jv) == IntLeq(iv[1], jv[1]) /\ IntLeq(jv[2], iv[2])
PairwiseDisjoint(I) ==
    \A i \in 1..Len(I), j \in 1..Len(I) : i # j => ~Intersect(I[i], I[j])

\* Membership in a union of intervals changes only at a low or just behind a
\* high, so two unions agree everywhere iff they agree at 0 and these points.
Points(I, J) ==
    {<<0, 0>>} \cup {I[k][1] : k \in 1..Len(I)} \cup {J[k][1] : k \in 1..Len(J)}
        \cup {IntSucc(I[k][2]) : k \in 1..Len(I)}
        \cup {IntSucc(J[k][2]) : k \in 1..Len(J)}
SubUnion(I, J) == \A x \in Points(I, J) : Covered(x, I) => Covered(x, J)
SameUnion(I, J) == SubUnion(I, J) /\ SubUnion(J, I)

AllWellFormedCidrs(cs) == \A k \in 1..Len(cs) : WellFormedCidr(cs[k])

(***************************************************************************)
(* Properties of the library                                               *)
(***************************************************************************)
Did(f) == call = f /\ returned

\* C1: for every non-empty collection of well-formed CIDR strings,
\* consolidate_ip_cidrs returns blocks no two of which share an address and
\* which together contain every address of every input block.
C1_ConsolidateCoversDisjointly ==
    (Did("consolidate_ip_cidrs") /\ Len(arg) > 0 /\ AllWellFormedCidrs(arg))
    => /\ ret.ok
       /\ AllWellFormedCidrs(ret.val)
       /\ PairwiseDisjoint(CidrIntervals(ret.val))
       /\ SubUnion(CidrIntervals(arg), CidrIntervals(ret.val))

\* three input blocks with a duplicate or nesting among them, reduced to two
C1_Witness ==
    /\ Did("consolidate_ip_cidrs") /\ AllWellFormedCidrs(arg)
    /\ Len(arg) = 3 /\ Len(ret.val) = 2
    /\ arg[1] = Cidr(192, 168, 1, 77, 25) /\ arg[3] = Cidr(192, 168, 1, 0, 24)

\* C2: for every collection of ranges, in any order, consolidate_ip_ranges
\* returns ranges sorted strictly ascending by low, pairwise non-intersecting,
\* with the same union of addresses as the input, each input range lying in
\* exactly one returned range.
C2_MergeSortedDisjointExact ==
    Did("consolidate_ip_ranges")
    => LET I == RangeIntervals(arg)
           O == RangeIntervals(ret.val)
       IN /\ \A k \in 1..Len(O) : IntLeq(O[k][1], O[k][2])
          /\ \A k \in 1..(Len(O) - 1) : IntLess(O[k][1], O[k + 1][1])
          /\ PairwiseDisjoint(O)
          /\ SameUnion(I, O)
          /\ \A i \in 1..Len(I) :
                 Cardinality({k \in 1..Len(O) : Contains(O[k], I[i])}) = 1

\* an input given out of order, whose third range bridges into the first
C2_Witness ==
    /\ Did("consolidate_ip_ranges") /\ Len(arg) = 3 /\ Len(ret.val) = 2
    /\ IntLess(RefValue(arg[2][1]), RefValue(arg[1][1]))
    /\ Intersect(RangeIntervals(arg)[3], RangeIntervals(arg)[1])
    /\ ~Intersect(RangeIntervals(arg)[2], RangeIntervals(arg)[1])

DocumentedConsolidateInput ==
    <<Cidr(192, 168, 0, 0, 24), Cidr(192, 168, 1, 0, 24), Cidr(10, 0, 0, 0, 8)>>

\* C3 as stated: no two returned ranges overlap or are adjacent with zero
\* gap, and the documented input consolidates to 10.0.0.0/8, 192.168.0.0/23.
C3_Original_TouchingMerged ==
    /\ Did("consolidate_ip_ranges")
       => LET O == RangeIntervals(ret.val)
          IN \A i \in 1..Len(O), j \in 1..Len(O) :
                 i # j => (~Intersect(O[i], O[j])
                           /\ IntSucc(O[i][2]) # O[j][1])
    /\ (Did("consolidate_ip_cidrs") /\ arg = DocumentedConsolidateInput)
       => ret = Ok(<<Cidr(10, 0, 0, 0, 8), Cidr(192, 168, 0, 0, 23)>>)

\* C3 amended: consolidate_ip_ranges combines only ranges that intersect:
\* no two returned ranges share an address, and inside a returned range every
\* two consecutive addresses lie together in some input range (ranges that
\* merely touch stay apart); the documented input consolidates to the three
\* blocks 10.0.0.0/8, 192.168.0.0/24, 192.168.1.0/24.
C3_OnlyIntersectingMerged ==
    /\ Did("consolidate_ip_ranges")
       => LET I == RangeIntervals(arg)
              O == RangeIntervals(ret.val)
          IN /\ PairwiseDisjoint(O)
             /\ \A k \in 1..Len(O), i \in 1..Len(I) :
                    (IntLess(O[k][1], I[i][1]) /\ IntLeq(I[i][1], O[k][2]))
                    => \E j \in 1..Len(I) :
                           /\ Within(IntPred(I[i][1]), I[j])
                           /\ Within(I[i][1], I[j])
    /\ (Did("consolidate_ip_cidrs") /\ arg = DocumentedConsolidateInput)
       => ret = Ok(<<Cidr(10, 0, 0, 0, 8), Cidr(192, 168, 0, 0, 24),
                     Cidr(192, 168, 1, 0, 24)>>)

\* two touching ranges were given and both came back
C3_Witness ==
    /\ Did("consolidate_ip_ranges") /\ Len(arg) = 2 /\ Len(ret.val) = 2
    /\ IntSucc(RefValue(arg[1][2])) = RefValue(arg[2][1])

\* C4: for every non-empty collection of valid addresses get_ip_cidr_from_ips
\* returns the smallest block containing them all: p/m contains every input,
\* p has its low 32-m bits zero, no longer mask fits (all inputs equal give
\* m = 32, inputs differing in the top bit give m = 0).
C4_CoveringCidrSmallest ==
    (Did("get_ip_cidr_from_ips") /\ Len(arg) > 0)
    => /\ ret.ok
       /\ WellFormedCidr(ret.val)
       /\ LET m == MaskOf(ret.val)
              p == RefValue(ret.val[1])
              X == {RefValue(arg[k]) : k \in 1..Len(arg)}
          IN /\ \A x \in X : Within(x, <<RefLow(ret.val), RefHigh(ret.val)>>)
             /\ ClearLow(p, 32 - m) = p
             /\ \A n \in (m + 1)..32 :
                    \E x \in X, y \in X :
                        IntFloorDivShl1(x, 32 - n) # IntFloorDivShl1(y, 32 - n)
             /\ (Cardinality(X) = 1 => m = 32)
             /\ (\E x \in X, y \in X : (x[1] >= 32768) # (y[1] >= 32768))
                => m = 0

\* three distinct addresses covered by a block strictly between /0 and /32
C4_Witness ==
    /\ Did("get_ip_cidr_from_ips") /\ Len(arg) = 3
    /\ arg[1] # arg[2] /\ arg[2] # arg[3] /\ arg[1] # arg[3]
    /\ MaskOf(ret.val) > 0 /\ MaskOf(ret.val) < 32

Doc1 == <<Addr(192, 168, 43, 0), Addr(192, 168, 44, 0), Addr(192, 168, 45, 0)>>
Doc2 == <<Addr(1, 2, 3, 4), Addr(1, 2, 3, 4)>>
Doc3 == <<Addr(0, 0, 0, 0), Addr(224, 255, 255, 255)>>

\* C5 as stated: the documented inputs give 192.168.32.0/19, 1.2.3.4/32 and
\* 0.0.0.0/0.
C5_Original_Documented ==
    Did("get_ip_cidr_from_ips")
    => /\ arg = Doc1 => ret = Ok(Cidr(192, 168, 32, 0, 19))
       /\ arg = Doc2 => ret = Ok(Cidr(1, 2, 3, 4, 32))
       /\ arg = Doc3 => ret = Ok(Cidr(0, 0, 0, 0, 0))

\* C5 amended: the documented inputs give 192.168.40.0/21, 1.2.3.4/32 and
\* 0.0.0.0/0.
C5_Documented ==
    Did("get_ip_cidr_from_ips")
    => /\ arg = Doc1 => ret = Ok(Cidr(192, 168, 40, 0, 21))
       /\ arg = Doc2 => ret = Ok(Cidr(1, 2, 3, 4, 32))
       /\ arg = Doc3 => ret = Ok(Cidr(0, 0, 0, 0, 0))

C5_Witness == Did("get_ip_cidr_from_ips") /\ arg = Doc1

\* C6: get_value and value_to_ip are mutual inverses: on every dotted quad
\* of four octets 0..255 (written in canonical decimal) get_value yields a
\* value in 0..2^32-1 that value_to_ip maps back to the same string, and on
\* every value in 0..2^32-1 value_to_ip yields a string get_value maps back.
C6_RoundTrip ==
    /\ (Did("get_value") /\ WellFormedAddr(arg))
       => /\ ret.ok
          /\ ret.val[1] \in 0..(Base - 1) /\ ret.val[2] \in 0..(Base - 1)
          /\ value_to_ip(ret.val) = arg
    /\ Did("value_to_ip")
       => /\ WellFormedAddr(ret.val)
          /\ get_value(ret.val) = Ok(arg)

\* an address at or above 2^31 with multi-digit octets went through get_value
C6_Witness ==
    /\ Did("get_value") /\ arg = Addr(192, 168, 43, 0)
    /\ ret = Ok(<<49320, 11008>>)

\* C7 as stated: every malformed address or CIDR string makes get_value /
\* ip_cidr_to_ip_value_range raise, and a malformed element makes
\* consolidate_ip_cidrs raise.
C7_MalformedRaises ==
    /\ (Did("get_value") /\ ~WellFormedAddr(arg)) => ~ret.ok
    /\ (Did("ip_cidr_to_ip_value_range") /\ ~WellFormedCidr(arg)) => ~ret.ok
    /\ (Did("consolidate_ip_cidrs") /\ ~AllWellFormedCidrs(arg)) => ~ret.ok

\* C8 as stated: get_ip_cidr_from_ips and consolidate_ip_cidrs both raise on
\* an empty collection.
C8_Original_EmptyRaises ==
    /\ (Did("get_ip_cidr_from_ips") /\ arg = <<>>) => ~ret.ok
    /\ (Did("consolidate_ip_cidrs") /\ arg = <<>>) => ~ret.ok

\* C8 amended: get_ip_cidr_from_ips raises on an empty collection, while
\* consolidate_ip_cidrs returns the empty sequence for it.
C8_EmptyInput ==
    /\ (Did("get_ip_cidr_from_ips") /\ arg = <<>>) => ~ret.ok
    /\ (Did("consolidate_ip_cidrs") /\ arg = <<>>) => ret = Ok(<<>>)

C8_Witness == Did("consolidate_ip_cidrs") /\ arg = <<>>

\* C9: consolidate_ip_cidrs never widens its input: every returned block is
\* the normalised form (low bits cleared, same mask) of an input block, and
\* the returned blocks cover exactly the union of the input blocks.
C9_ConsolidateExact ==
    (Did("consolidate_ip_cidrs") /\ AllWellFormedCidrs(arg))
    => /\ ret.ok
       /\ \A k \in 1..Len(ret.val) :
              \E i \in 1..Len(arg) :
                  ret.val[k] = <<RefAddr(RefLow(arg[i])), arg[i][2]>>
       /\ SameUnion(CidrIntervals(arg), CidrIntervals(ret.val))

\* adjacent blocks whose single covering block would be wider than their
\* union (192.168.1.0/24, 192.168.2.0/24) came back as they were
C9_Witness ==
    /\ Did("consolidate_ip_cidrs")
    /\ arg = <<Cidr(192, 168, 2, 0, 24), Cidr(192, 168, 1, 77, 25),
               Cidr(192, 168, 1, 0, 24)>>
    /\ ret = Ok(<<Cidr(192, 168, 1, 0, 24), Cidr(192, 168, 2, 0, 24)>>)

====
